---- MODULE Spec2Model ----
(***************************************************************************)
(* Model of gemini-rod's conversation loop (loop.go, event.go):            *)
(* StartLoop's goroutine, the dispatch of a model turn's function calls,   *)
(* the unbuffered channels between the loop and its subscriber, and the    *)
(* pruning of old screenshots from the history.                            *)
(***************************************************************************)
EXTENDS Integers, Sequences, FiniteSets, TLC

\* ---------------------------------------------------------------- bounds
\* GenerateContent requests one run of the loop may issue.
MaxTurns == 3
\* Function calls in one model turn.
MaxCalls == 2
\* Respond/Reject invocations the subscriber makes in one run.
MaxInvocations == 2
\* Turns of the histories pruneOldScreenshots is given on its own.
MaxPruneTurns == 4

\* ------------------------------------------------------- program constants
\* Default of config.MaxRecentTurnsWithScreenshots.
DefaultMaxRecentTurns == 3

\* builtInTools: the names of the registry.
builtInTools ==
    { "open_web_browser", "wait_5_seconds", "go_back", "go_forward", "search",
      "navigate", "click_at", "hover_at", "type_text_at", "key_combination",
      "scroll_document", "scroll_at", "drag_and_drop" }

IsBuiltInTool(name) == name \in builtInTools

\* ------------------------------------------------------------ input sets
\* Names the model client may put in a function call: a built-in tool and
\* a tool of the subscriber.
CallNames == { "navigate", "ask_user" }
\* Values config.MaxRecentTurnsWithScreenshots may be given.
RetentionChoices == { -1, 0, 1, 2 }
\* What the subscriber passes to Respond and to Reject: the code never looks
\* into either, so the n-th invocation of a run passes the value n.
Payload(n) == <<"response", n>>
RejectErr(n) == <<"rejection", n>>

\* ------------------------------------------------------------- data model
RoleUser  == "user"
RoleModel == "model"

NoChan == <<0, 0>>

\* genai.Part: a text part, a function call, or a function response with its
\* FunctionResponse.Parts (nil is <<>>).
TextPart(t) ==
    [kind |-> "text", text |-> t, name |-> "", args |-> 0,
     response |-> <<>>, parts |-> <<>>]
FunctionCallPart(name, args) ==
    [kind |-> "call", text |-> <<>>, name |-> name, args |-> args,
     response |-> <<>>, parts |-> <<>>]
\* genai.NewPartFromFunctionResponse(name, response)
NewPartFromFunctionResponse(name, response) ==
    [kind |-> "resp", text |-> <<>>, name |-> name, args |-> 0,
     response |-> response, parts |-> <<>>]
\* genai.NewPartFromFunctionResponseWithParts(name, response, parts)
NewPartFromFunctionResponseWithParts(name, response, parts) ==
    [kind |-> "resp", text |-> <<>>, name |-> name, args |-> 0,
     response |-> response, parts |-> parts]

Content(role, parts) == [role |-> role, parts |-> parts]

\* error values: nil, ctx.Err(), and the three wrapped errors of loop.go
NoErr == [kind |-> "nil", name |-> "", cause |-> ""]
ErrCancelled == [kind |-> "context canceled", name |-> "", cause |-> ""]
ErrGenerate == [kind |-> "error during generating content", name |-> "", cause |-> "client"]
ErrBuiltIn(name, cause) == [kind |-> "error handling built-in tool", name |-> name, cause |-> cause]
ErrRejected(name, cause) == [kind |-> "function call rejected", name |-> name, cause |-> cause]

ProgressEvent(text, calls) == [type |-> "Progress", Text |-> text, FunctionCalls |-> calls, Err |-> NoErr]
ErrorEvent(e) == [type |-> "Error", Text |-> <<>>, FunctionCalls |-> <<>>, Err |-> e]

\* ---------------------------------------------------------- pure functions
\* extractText: the concatenation of the text of every part with text.
RECURSIVE extractTextFrom(_, _)
extractTextFrom(parts, i) ==
    IF i > Len(parts) THEN <<>>
    ELSE (IF parts[i].text # <<>> THEN parts[i].text ELSE <<>>)
         \o extractTextFrom(parts, i + 1)
extractText(content) == extractTextFrom(content.parts, 1)

\* resp.FunctionCalls(): the function calls of the turn, in order.
FunctionCallsOf(content) ==
    LET calls == SelectSeq(content.parts, LAMBDA p : p.kind = "call")
    IN  [i \in 1..Len(calls) |-> [Name |-> calls[i].name, Args |-> calls[i].args]]

\* createFunctionCallEvents: one handle per call, and one pendingResponse per
\* call that is not built-in.  t identifies the turn whose channels are made;
\* a channel pair is named <<t, k>>, k the position in pendingResponses.
RECURSIVE createFrom(_, _, _, _, _)
createFrom(functionCalls, t, i, callEvents, pendingResponses) ==
    IF i > Len(functionCalls) THEN
        [callEvents |-> callEvents, pendingResponses |-> pendingResponses]
    ELSE
        LET funcCall == functionCalls[i] IN
        IF IsBuiltInTool(funcCall.Name) THEN
            createFrom(functionCalls, t, i + 1,
                Append(callEvents,
                    [FunctionName |-> funcCall.Name, Args |-> funcCall.Args,
                     needsAction |-> FALSE, chan |-> NoChan]),
                pendingResponses)
        ELSE
            LET ch == <<t, Len(pendingResponses) + 1>> IN
            createFrom(functionCalls, t, i + 1,
                Append(callEvents,
                    [FunctionName |-> funcCall.Name, Args |-> funcCall.Args,
                     needsAction |-> TRUE, chan |-> ch]),
                Append(pendingResponses, [funcCall |-> funcCall, chan |-> ch]))
\* Mutant: every pendingResponse refers to the last call of the turn.
createFunctionCallEvents_LastCall(functionCalls, t) ==
    LET r == createFrom(functionCalls, t, 1, <<>>, <<>>) IN
    [callEvents |-> r.callEvents,
     pendingResponses |->
        [k \in 1..Len(r.pendingResponses) |->
            [r.pendingResponses[k] EXCEPT
                !.funcCall = functionCalls[Len(functionCalls)]]]]
\* Mutant: only the calls that need action get a handle.
createFunctionCallEvents_OnlyCustom(functionCalls, t) ==
    LET r == createFrom(functionCalls, t, 1, <<>>, <<>>) IN
    [callEvents |-> SelectSeq(r.callEvents, LAMBDA h : h.needsAction),
     pendingResponses |-> r.pendingResponses]
\* Mutant: every handle is marked as needing action.
createFunctionCallEvents_AllNeedAction(functionCalls, t) ==
    LET r == createFrom(functionCalls, t, 1, <<>>, <<>>) IN
    [callEvents |->
        [i \in 1..Len(r.callEvents) |->
            [r.callEvents[i] EXCEPT !.needsAction = TRUE]],
     pendingResponses |-> r.pendingResponses]
createFunctionCallEvents(functionCalls, t) ==
    createFrom(functionCalls, t, 1, <<>>, <<>>)

\* The test of pruneOldScreenshots on a part: a function response of a
\* built-in tool whose Parts are not nil.
IsScreenshotPart(part) ==
    /\ part.kind = "resp"
    /\ part.parts # <<>>
    /\ IsBuiltInTool(part.name)

hasScreenshot(content) ==
    \E j \in 1..Len(content.parts) : IsScreenshotPart(content.parts[j])

\* Mutant: the pruned results are removed from the turn with their screenshots.
RemoveScreenshots_DropsResults(content) ==
    [content EXCEPT !.parts =
        SelectSeq(content.parts, LAMBDA part : ~IsScreenshotPart(part))]
\* The inner loop of pruneOldScreenshots: FunctionResponse.Parts = nil on
\* every screenshot part of the turn.
RemoveScreenshots(content) ==
    [content EXCEPT !.parts =
        [j \in 1..Len(content.parts) |->
            IF IsScreenshotPart(content.parts[j])
            THEN [content.parts[j] EXCEPT !.parts = <<>>]
            ELSE content.parts[j]]]

\* Mutant: only the turn that first exceeds the limit is pruned.
ExceedsLimit_FirstOnly(turnsWithScreenshotsFound, maxTurns) ==
    turnsWithScreenshotsFound = maxTurns + 1
\* Mutant: the turn that reaches the limit is pruned too.
ExceedsLimit_OffByOne(turnsWithScreenshotsFound, maxTurns) ==
    turnsWithScreenshotsFound >= maxTurns
\* The limit test of pruneOldScreenshots.
ExceedsLimit(turnsWithScreenshotsFound, maxTurns) ==
    turnsWithScreenshotsFound > maxTurns

\* pruneOldScreenshots: walk the history from its end to its start.
RECURSIVE pruneFrom(_, _, _, _)
pruneFrom(h, maxTurns, i, turnsWithScreenshotsFound) ==
    IF i < 1 THEN h
    ELSE
        LET content == h[i] IN
        IF content.role # RoleUser \/ content.parts = <<>> THEN
            pruneFrom(h, maxTurns, i - 1, turnsWithScreenshotsFound)
        ELSE IF hasScreenshot(content) THEN
            LET found == turnsWithScreenshotsFound + 1 IN
            IF ExceedsLimit(found, maxTurns)
            THEN pruneFrom([h EXCEPT ![i] = RemoveScreenshots(content)],
                           maxTurns, i - 1, found)
            ELSE pruneFrom(h, maxTurns, i - 1, found)
        ELSE pruneFrom(h, maxTurns, i - 1, turnsWithScreenshotsFound)
pruneOldScreenshots(h, maxTurns) == pruneFrom(h, maxTurns, Len(h), 0)

\* StartLoop's default: 0 is replaced by 3.
ApplyDefaults(maxRecent) ==
    IF maxRecent = 0 THEN DefaultMaxRecentTurns ELSE maxRecent

\* Mutant: the pruning step runs whatever the configured value.
PruneEnabled_Always(maxRecent) == TRUE
\* The guard of the pruning step of StartLoop.
PruneEnabled(maxRecent) == maxRecent > 0

\* Lines 103-112 of StartLoop: append the tool-results turn, then prune.
AppendResultsAndPrune(h, parts, maxRecent) ==
    LET appended == Append(h, Content(RoleUser, parts)) IN
    IF PruneEnabled(maxRecent)
    THEN pruneOldScreenshots(appended, maxRecent)
    ELSE appended

\* map[string]any: a function from keys to values; nil and the empty map
\* read alike.
EmptyMap == [k \in {} |-> 0]

\* Mutant: the extra fields are not merged into the result.
MergeExtraFields_Dropped(result, extraFields) == result
\* maps.Copy(result, extraFields): the entries of extraFields are written
\* into result, over the entries result has under the same key.
MergeExtraFields(result, extraFields) == extraFields @@ result

\* The tools whose handler performs an action on the session.  The handlers
\* of open_web_browser and wait_5_seconds only read the URL.
ActingTools == builtInTools \ { "open_web_browser", "wait_5_seconds" }
\* The URLs session.GetURL may report, whatever the tool and its arguments:
\* the argument of the first navigation of a run, and another one.
URLChoices == { 0, 11 }
\* The session after the handler of the tool has run: the tools that act on
\* the session have applied one more action to it.
SessionAfter(sess, name) ==
    IF name \notin ActingTools THEN sess
    ELSE [actions |-> sess.actions + 1]
\* session.Screenshot(): the bytes show the session as it is.
Screenshot(sess) == [mime |-> "image/png", data |-> sess]
\* getURLResponse: map[string]any{"url": url}, url the value of GetURL.
getURLResponse(url) == "url" :> url

\* An invocation of HandleBuiltInTool: its arguments, how far it has come
\* (stage), url of getURLResponse and the handler's result once read, and
\* what it returns.
NoCall ==
    [stage |-> "none", name |-> "", args |-> 0, extraFields |-> EmptyMap,
     url |-> 0, result |-> EmptyMap, part |-> TextPart(<<>>), err |-> ""]
NewCall(name, args, extraFields) ==
    [NoCall EXCEPT !.stage = "handler", !.name = name, !.args = args,
                   !.extraFields = extraFields]

\* ------------------------------------------------------------------ state
VARIABLES
    cfgMax,        \* config.MaxRecentTurnsWithScreenshots after the defaults
    ctxDone,       \* ctx.Done() is closed
    pc,            \* position of StartLoop's goroutine
    history,       \* history
    turn,          \* GenerateContent requests issued so far
    callIdx,       \* position of executeFunctionCalls' range loop (1-based)
    pendingIdx,    \* pendingIdx
    responseParts, \* responseParts
    err,           \* err of the iteration
    session,       \* the browser session
    call,          \* the invocation of HandleBuiltInTool in progress
    closed,        \* eventChan is closed
    received,      \* events the subscriber has received from eventChan
    respQ,         \* per channel pair: Respond invocations blocked in the send
    rejQ,          \* per channel pair: Reject invocations blocked in the send
    settled,       \* per channel pair: what executeFunctionCalls received
    invoked        \* Respond/Reject invocations made so far

vars == << cfgMax, ctxDone, pc, history, turn, callIdx, pendingIdx,
           responseParts, err, session, call, closed, received, respQ,
           rejQ, settled, invoked >>

loopVars == << callIdx, pendingIdx, responseParts, err >>
subscriberVars == << respQ, rejQ, settled, invoked >>

Chans == (1..MaxTurns) \X (1..MaxCalls)

Last(s) == s[Len(s)]

\* Locals of the iteration, valid from the model's turn being appended until
\* the tool-results turn is appended.
functionCalls == FunctionCallsOf(Last(history))
text == extractText(Last(history))
callEvents == createFunctionCallEvents(functionCalls, turn).callEvents
pendingResponses == createFunctionCallEvents(functionCalls, turn).pendingResponses

\* pendingResponses[pendingIdx] of the code (0-based) is entry pendingIdx + 1.
\* Mutant: the slot is looked up without the index of the dispatch.
PendingAt_First(pendings, idx) == pendings[1]
PendingAt(pendings, idx) == pendings[idx + 1]

\* pending of executeFunctionCalls: read before pendingIdx++ when the loop is
\* at the call, after it when the select is parked.
CurrentPending ==
    IF pc = "await"
    THEN PendingAt(pendingResponses, pendingIdx - 1)
    ELSE PendingAt(pendingResponses, pendingIdx)

\* The channel pair the select of executeFunctionCalls is parked on.
Awaited == CurrentPending.chan

\* Turns the model client may answer with: a text part, then the calls.
RECURSIVE CallParts(_, _, _)
CallParts(names, t, i) ==
    IF i > Len(names) THEN <<>>
    ELSE <<FunctionCallPart(names[i], 10 * t + i)>> \o CallParts(names, t, i + 1)
ModelTurn(names, t) ==
    Content(RoleModel, <<TextPart(<<t>>)>> \o CallParts(names, t, 1))
CallSeqs == UNION { [1..n -> CallNames] : n \in 0..MaxCalls }

Init ==
    /\ cfgMax \in { ApplyDefaults(m) : m \in RetentionChoices }
    /\ ctxDone = FALSE
    /\ pc = "top"
    /\ history = << Content(RoleUser, <<TextPart(<<0>>)>>) >>
    /\ turn = 0
    /\ callIdx = 0
    /\ pendingIdx = 0
    /\ responseParts = <<>>
    /\ err = NoErr
    /\ session = [actions |-> 0]
    /\ call = NoCall
    /\ closed = FALSE
    /\ received = <<>>
    /\ respQ = [ch \in Chans |-> <<>>]
    /\ rejQ = [ch \in Chans |-> <<>>]
    /\ settled = [ch \in Chans |-> "pending"]
    /\ invoked = 0

\* ------------------------------------------------- StartLoop's goroutine
\* The select at the top of the iteration finds ctx.Done() closed.
CheckCancelled ==
    /\ pc = "top"
    /\ ctxDone
    /\ pc' = "sendErrTop"
    /\ err' = ErrCancelled
    /\ UNCHANGED << cfgMax, ctxDone, history, turn, callIdx, pendingIdx,
                    responseParts, session, call, closed, received, subscriberVars >>

\* Mutant: the request is sent without the check of ctx.Done().
SendRequest_NoCheck ==
    /\ pc = "top"
    /\ turn < MaxTurns
    /\ turn' = turn + 1
    /\ pc' = "generate"
    /\ UNCHANGED << cfgMax, ctxDone, history, loopVars, session, call, closed,
                    received, subscriberVars >>
\* The default branch: GenerateContent is called.
SendRequest ==
    /\ pc = "top"
    /\ ~ctxDone
    /\ turn < MaxTurns
    /\ turn' = turn + 1
    /\ pc' = "generate"
    /\ UNCHANGED << cfgMax, ctxDone, history, loopVars, session, call, closed,
                    received, subscriberVars >>

\* Mutant: the loop does not end on a turn without function calls.
AfterTurn_NoTerminalCheck(calls) == "sendProgress"
\* The terminal check: a turn without function calls ends the loop.
AfterTurn(calls) == IF Len(calls) = 0 THEN "sendFinal" ELSE "sendProgress"

\* GenerateContent returns a turn; it is appended to the history.
GenerateContentOk ==
    /\ pc = "generate"
    /\ \E names \in CallSeqs :
         /\ history' = Append(history, ModelTurn(names, turn))
         /\ pc' = AfterTurn(FunctionCallsOf(ModelTurn(names, turn)))
    /\ UNCHANGED << cfgMax, ctxDone, turn, loopVars, session, call, closed,
                    received, subscriberVars >>

\* A nil *genai.Content: resp.Candidates[0].Content of a candidate that
\* carries no content.
NilContent == Content("nil", <<>>)

\* GenerateContent returns a response without candidates:
\* resp.Candidates[0] is out of range and the goroutine panics.
GenerateContentNoCandidates ==
    /\ pc = "generate"
    /\ pc' = "panic"
    /\ UNCHANGED << cfgMax, ctxDone, history, turn, loopVars, session, call,
                    closed, received, subscriberVars >>

\* GenerateContent returns a candidate whose Content is nil: nil is appended
\* to the history, and extractText dereferences it and panics.
GenerateContentNilContent ==
    /\ pc = "generate"
    /\ history' = Append(history, NilContent)
    /\ pc' = "panic"
    /\ UNCHANGED << cfgMax, ctxDone, turn, loopVars, session, call, closed,
                    received, subscriberVars >>

\* Mutant: a failed request is tried again at the top of the loop.
GenerateContentErr_Retries ==
    /\ pc = "generate"
    /\ err' = ErrGenerate
    /\ pc' = "top"
    /\ UNCHANGED << cfgMax, ctxDone, history, turn, callIdx, pendingIdx,
                    responseParts, session, call, closed, received, subscriberVars >>
\* GenerateContent fails.
GenerateContentErr ==
    /\ pc = "generate"
    /\ err' = ErrGenerate
    /\ pc' = "sendErrRequest"
    /\ UNCHANGED << cfgMax, ctxDone, history, turn, callIdx, pendingIdx,
                    responseParts, session, call, closed, received, subscriberVars >>

\* eventChan is unbuffered: a send completes when the subscriber receives.
\* The final Progress event of a turn without function calls.
RecvFinal ==
    /\ pc = "sendFinal"
    /\ received' = Append(received, ProgressEvent(text, <<>>))
    /\ pc' = "break"
    /\ UNCHANGED << cfgMax, ctxDone, history, turn, loopVars, session, call, closed,
                    subscriberVars >>

\* The Progress event of a turn with function calls; executeFunctionCalls
\* starts once it is received.
RecvProgress ==
    /\ pc = "sendProgress"
    /\ received' = Append(received, ProgressEvent(text, callEvents))
    /\ pc' = "dispatch"
    /\ callIdx' = 1
    /\ pendingIdx' = 0
    /\ responseParts' = <<>>
    /\ UNCHANGED << cfgMax, ctxDone, history, turn, err, session, call, closed,
                    subscriberVars >>

\* Mutant: the loop goes on after the error of a dispatch.
ReturnSite_Continue(p) ==
    CASE p = "sendErrTop" -> "returnTop"
      [] p = "sendErrRequest" -> "returnRequest"
      [] p = "sendErrDispatch" -> "top"
\* The return that follows each send of an Error event.
ReturnSite(p) ==
    CASE p = "sendErrTop" -> "returnTop"
      [] p = "sendErrRequest" -> "returnRequest"
      [] p = "sendErrDispatch" -> "returnDispatch"

\* An Error event is received; the goroutine returns.
RecvError ==
    /\ pc \in { "sendErrTop", "sendErrRequest", "sendErrDispatch" }
    /\ received' = Append(received, ErrorEvent(err))
    /\ pc' = ReturnSite(pc)
    /\ UNCHANGED << cfgMax, ctxDone, history, turn, loopVars, session, call, closed,
                    subscriberVars >>

\* The goroutine has left the loop: by break, by a return, or by a panic.
Returned ==
    pc \in { "break", "returnTop", "returnRequest", "returnDispatch", "panic",
             "exited" }

\* defer close(eventChan)
Close ==
    /\ Returned
    /\ ~closed
    /\ closed' = TRUE
    /\ UNCHANGED << cfgMax, ctxDone, pc, history, turn, loopVars, session, call,
                    received, subscriberVars >>

\* ------------------------------------------------- executeFunctionCalls
AtCall == pc = "dispatch" /\ callIdx <= Len(functionCalls)
AtBuiltIn == AtCall /\ IsBuiltInTool(functionCalls[callIdx].Name)
AtCustom == AtCall /\ ~IsBuiltInTool(functionCalls[callIdx].Name)

\* The call HandleBuiltInTool(session, fc.Name, fc.Args) of a built-in call:
\* the loop passes no extra fields.
CallBuiltIn ==
    /\ AtBuiltIn
    /\ LET fc == functionCalls[callIdx]
       IN  call' = NewCall(fc.Name, fc.Args, EmptyMap)
    /\ pc' = "builtin"
    /\ UNCHANGED << cfgMax, ctxDone, history, turn, loopVars, session, closed,
                    received, subscriberVars >>

\* HandleBuiltInTool up to the return of the handler's session action: the
\* lookup in builtInTools, the handler's check of args, and the action.  A
\* failed check or action leaves the session as it was.
ToolHandler ==
    /\ call.stage = "handler"
    /\ IF ~IsBuiltInTool(call.name)
       THEN /\ call' = [call EXCEPT !.stage = "returned",
                                    !.err = "unknown built-in tool"]
            /\ UNCHANGED session
       ELSE \/ /\ call.name \in ActingTools
               /\ call' = [call EXCEPT !.stage = "returned", !.err = "handler"]
               /\ UNCHANGED session
            \/ /\ session' = SessionAfter(session, call.name)
               /\ call' = [call EXCEPT !.stage = "geturl"]
    /\ UNCHANGED << cfgMax, ctxDone, pc, history, turn, loopVars, closed,
                    received, subscriberVars >>

\* The return of session.GetURL in getURLResponse, with an error or with the
\* URL the browser reports, and maps.Copy.
ToolGetURL ==
    /\ call.stage = "geturl"
    /\ \/ call' = [call EXCEPT !.stage = "returned", !.err = "geturl"]
       \/ \E url \in URLChoices :
            call' = [call EXCEPT
                       !.stage = "screenshot",
                       !.url = url,
                       !.result = MergeExtraFields(getURLResponse(url),
                                                   call.extraFields)]
    /\ UNCHANGED << cfgMax, ctxDone, pc, history, turn, loopVars, session,
                    closed, received, subscriberVars >>

\* The return of session.Screenshot, and the part HandleBuiltInTool returns.
ToolScreenshot ==
    /\ call.stage = "screenshot"
    /\ \/ call' = [call EXCEPT !.stage = "returned",
                               !.err = "failed to take screenshot"]
       \/ call' = [call EXCEPT
                     !.stage = "returned",
                     !.part = NewPartFromFunctionResponseWithParts(
                                  call.name, call.result,
                                  << Screenshot(session) >>)]
    /\ UNCHANGED << cfgMax, ctxDone, pc, history, turn, loopVars, session,
                    closed, received, subscriberVars >>

\* Mutant: a failed built-in call returns the parts produced so far with its error.
BuiltInReturn_KeepsPartial ==
    /\ pc = "builtin"
    /\ call.stage = "returned"
    /\ call' = NoCall
    /\ IF call.err = ""
       THEN /\ responseParts' = Append(responseParts, call.part)
            /\ callIdx' = callIdx + 1
            /\ pc' = "dispatch"
            /\ UNCHANGED err
       ELSE /\ responseParts' = responseParts
            /\ err' = ErrBuiltIn(call.name, call.err)
            /\ pc' = "sendErrDispatch"
            /\ UNCHANGED callIdx
    /\ UNCHANGED << cfgMax, ctxDone, history, turn, pendingIdx, session,
                    closed, received, subscriberVars >>
\* HandleBuiltInTool has returned: the part is appended, or the dispatch
\* returns the error.
BuiltInReturn ==
    /\ pc = "builtin"
    /\ call.stage = "returned"
    /\ call' = NoCall
    /\ IF call.err = ""
       THEN /\ responseParts' = Append(responseParts, call.part)
            /\ callIdx' = callIdx + 1
            /\ pc' = "dispatch"
            /\ UNCHANGED err
       ELSE /\ responseParts' = <<>>
            /\ err' = ErrBuiltIn(call.name, call.err)
            /\ pc' = "sendErrDispatch"
            /\ UNCHANGED callIdx
    /\ UNCHANGED << cfgMax, ctxDone, history, turn, pendingIdx, session,
                    closed, received, subscriberVars >>

\* The part of a custom call: named after pending.funcCall.
CustomPart(pending, response) ==
    NewPartFromFunctionResponse(pending.funcCall.Name, response)

\* The select of a custom call.  A select whose cases are all blocked parks
\* the goroutine on its three channels (pc = "await"); the first operation on
\* one of them completes the select.  A select that finds several cases ready
\* takes any of them.
\* Mutant: ctx.Done() is looked at when the select is entered only, not while
\* the goroutine is parked.
SelectCtxDone_EntryOnly ==
    /\ ctxDone
    /\ AtCustom
    /\ pendingIdx' = pendingIdx + 1
    /\ responseParts' = <<>>
    /\ err' = ErrCancelled
    /\ pc' = "sendErrDispatch"
    /\ UNCHANGED << cfgMax, ctxDone, history, turn, callIdx, session, call, closed,
                    received, subscriberVars >>
\* Mutant: on cancellation the parts so far are returned without an error.
SelectCtxDone_PartialResults ==
    /\ ctxDone
    /\ \/ AtCustom /\ pendingIdx' = pendingIdx + 1
       \/ pc = "await" /\ pendingIdx' = pendingIdx
    /\ pc' = "append"
    /\ UNCHANGED << cfgMax, ctxDone, history, turn, callIdx, responseParts,
                    err, session, call, closed, received, subscriberVars >>
\* case <-ctx.Done()
SelectCtxDone ==
    /\ ctxDone
    /\ \/ AtCustom /\ pendingIdx' = pendingIdx + 1
       \/ pc = "await" /\ pendingIdx' = pendingIdx
    /\ responseParts' = <<>>
    /\ err' = ErrCancelled
    /\ pc' = "sendErrDispatch"
    /\ UNCHANGED << cfgMax, ctxDone, history, turn, callIdx, session, call, closed,
                    received, subscriberVars >>

\* case err := <-pending.rejectChan, a Reject invocation being blocked in its send
SelectReject ==
    /\ AtCustom
    /\ LET pending == CurrentPending IN
         /\ rejQ[pending.chan] # <<>>
         /\ rejQ' = [rejQ EXCEPT ![pending.chan] = Tail(@)]
         /\ settled' = [settled EXCEPT ![pending.chan] = "rejected"]
         /\ err' = ErrRejected(pending.funcCall.Name, Head(rejQ[pending.chan]))
    /\ pendingIdx' = pendingIdx + 1
    /\ responseParts' = <<>>
    /\ pc' = "sendErrDispatch"
    /\ UNCHANGED << cfgMax, ctxDone, history, turn, callIdx, session, call, closed,
                    received, respQ, invoked >>

\* case response := <-pending.respChan, a Respond invocation being blocked in its send
SelectRespond ==
    /\ AtCustom
    /\ LET pending == CurrentPending IN
         /\ respQ[pending.chan] # <<>>
         /\ respQ' = [respQ EXCEPT ![pending.chan] = Tail(@)]
         /\ settled' = [settled EXCEPT ![pending.chan] = "responded"]
         /\ responseParts' =
                Append(responseParts, CustomPart(pending, Head(respQ[pending.chan])))
    /\ pendingIdx' = pendingIdx + 1
    /\ callIdx' = callIdx + 1
    /\ UNCHANGED << cfgMax, ctxDone, pc, history, turn, err, session, call, closed,
                    received, rejQ, invoked >>

\* Mutant: a select with no case ready moves on to the next call.
SelectPark_Skips ==
    /\ AtCustom
    /\ ~ctxDone
    /\ LET pending == CurrentPending IN
         /\ rejQ[pending.chan] = <<>>
         /\ respQ[pending.chan] = <<>>
    /\ pendingIdx' = pendingIdx + 1
    /\ callIdx' = callIdx + 1
    /\ UNCHANGED << cfgMax, ctxDone, pc, history, turn, responseParts,
                    err, session, call, closed, received, subscriberVars >>
\* No case is ready: the goroutine parks.
SelectPark ==
    /\ AtCustom
    /\ ~ctxDone
    /\ LET pending == CurrentPending IN
         /\ rejQ[pending.chan] = <<>>
         /\ respQ[pending.chan] = <<>>
    /\ pendingIdx' = pendingIdx + 1
    /\ pc' = "await"
    /\ UNCHANGED << cfgMax, ctxDone, history, turn, callIdx, responseParts,
                    err, session, call, closed, received, subscriberVars >>

\* return responseParts, nil
DispatchReturn ==
    /\ pc = "dispatch"
    /\ callIdx > Len(functionCalls)
    /\ pc' = "append"
    /\ UNCHANGED << cfgMax, ctxDone, history, turn, loopVars, session, call, closed,
                    received, subscriberVars >>

\* The tool-results turn is appended and the history pruned.
AppendResults ==
    /\ pc = "append"
    /\ history' = AppendResultsAndPrune(history, responseParts, cfgMax)
    /\ pc' = "top"
    /\ UNCHANGED << cfgMax, ctxDone, turn, loopVars, session, call, closed,
                    received, subscriberVars >>

\* ---------------------------------------------------------- the subscriber
\* The channel pairs of the handles with needsAction the subscriber holds.
HeldChans ==
    { ch \in Chans :
        \E e \in 1..Len(received) :
          \E i \in 1..Len(received[e].FunctionCalls) :
            /\ received[e].FunctionCalls[i].needsAction
            /\ received[e].FunctionCalls[i].chan = ch }

\* The panic of the goroutine is not recovered: once the deferred close has
\* run, the process exits, and the subscriber with it.
ProcessExit ==
    /\ pc = "panic"
    /\ closed
    /\ pc' = "exited"
    /\ UNCHANGED << cfgMax, ctxDone, history, turn, loopVars, session, call,
                    closed, received, subscriberVars >>

\* The process of the subscriber is alive.
Running == pc # "exited"

\* The select is parked on ch and no other operation has completed it.
ParkedOn(ch) == pc = "await" /\ ~ctxDone /\ Awaited = ch

\* The context is cancelled.
Cancel ==
    /\ Running
    /\ ~ctxDone
    /\ ctxDone' = TRUE
    /\ UNCHANGED << cfgMax, pc, history, turn, loopVars, session, call, closed,
                    received, subscriberVars >>

\* Mutant: the send of Respond does not wait for a receiver; the value is
\* dropped when the dispatcher is not parked on the channel.
Respond_NonBlocking ==
    /\ Running
    /\ invoked < MaxInvocations
    /\ invoked' = invoked + 1
    /\ \E ch \in HeldChans :
         LET response == Payload(invoked + 1) IN
         IF ParkedOn(ch)
         THEN /\ responseParts' =
                     Append(responseParts, CustomPart(CurrentPending, response))
              /\ callIdx' = callIdx + 1
              /\ pc' = "dispatch"
              /\ settled' = [settled EXCEPT ![ch] = "responded"]
              /\ UNCHANGED << respQ, err >>
         ELSE UNCHANGED << respQ, responseParts, callIdx, pc, settled, err >>
    /\ UNCHANGED << cfgMax, ctxDone, history, turn, pendingIdx, session, call,
                    closed, received, rejQ >>
\* FunctionCall.Respond on a handle with needsAction: respChan <- response.
\* The send completes at once when the select is parked on the channel, and
\* blocks otherwise.
Respond ==
    /\ Running
    /\ invoked < MaxInvocations
    /\ invoked' = invoked + 1
    /\ \E ch \in HeldChans :
         LET response == Payload(invoked + 1) IN
         IF ParkedOn(ch)
         THEN /\ responseParts' =
                     Append(responseParts, CustomPart(CurrentPending, response))
              /\ callIdx' = callIdx + 1
              /\ pc' = "dispatch"
              /\ settled' = [settled EXCEPT ![ch] = "responded"]
              /\ UNCHANGED << respQ, err >>
         ELSE /\ respQ' = [respQ EXCEPT ![ch] = Append(@, response)]
              /\ UNCHANGED << responseParts, callIdx, pc, settled, err >>
    /\ UNCHANGED << cfgMax, ctxDone, history, turn, pendingIdx, session, call,
                    closed, received, rejQ >>

\* Mutant: a rejection received by a parked select becomes the call's result
\* and the dispatch goes on.
Reject_Continues ==
    /\ Running
    /\ invoked < MaxInvocations
    /\ invoked' = invoked + 1
    /\ \E ch \in HeldChans :
         LET e == RejectErr(invoked + 1) IN
         IF ParkedOn(ch)
         THEN /\ responseParts' = Append(responseParts, CustomPart(CurrentPending, e))
              /\ callIdx' = callIdx + 1
              /\ pc' = "dispatch"
              /\ settled' = [settled EXCEPT ![ch] = "rejected"]
              /\ UNCHANGED << rejQ, err >>
         ELSE /\ rejQ' = [rejQ EXCEPT ![ch] = Append(@, e)]
              /\ UNCHANGED << responseParts, callIdx, pc, settled, err >>
    /\ UNCHANGED << cfgMax, ctxDone, history, turn, pendingIdx,
                    session, call, closed, received, respQ >>
\* FunctionCall.Reject on a handle with needsAction: rejectChan <- err.
Reject ==
    /\ Running
    /\ invoked < MaxInvocations
    /\ invoked' = invoked + 1
    /\ \E ch \in HeldChans :
         LET e == RejectErr(invoked + 1) IN
         IF ParkedOn(ch)
         THEN /\ responseParts' = <<>>
              /\ err' = ErrRejected(CurrentPending.funcCall.Name, e)
              /\ pc' = "sendErrDispatch"
              /\ settled' = [settled EXCEPT ![ch] = "rejected"]
              /\ UNCHANGED << rejQ >>
         ELSE /\ rejQ' = [rejQ EXCEPT ![ch] = Append(@, e)]
              /\ UNCHANGED << responseParts, pc, settled, err >>
    /\ UNCHANGED << cfgMax, ctxDone, history, turn, callIdx, pendingIdx,
                    session, call, closed, received, respQ >>

\* The handles the subscriber holds whose respondFunc and rejectFunc are nil.
NilFuncHandles ==
    { h \in UNION { { received[e].FunctionCalls[i] :
                        i \in 1..Len(received[e].FunctionCalls) } :
                    e \in 1..Len(received) } : h.chan = NoChan }

\* FunctionCall.Respond on a handle whose respondFunc is nil: returns at once.
RespondNil ==
    /\ Running
    /\ NilFuncHandles # {}
    /\ UNCHANGED vars

\* FunctionCall.Reject on a handle whose rejectFunc is nil: returns at once.
RejectNil ==
    /\ Running
    /\ NilFuncHandles # {}
    /\ UNCHANGED vars

Next ==
    \/ CheckCancelled
    \/ SendRequest
    \/ GenerateContentOk
    \/ GenerateContentNoCandidates
    \/ GenerateContentNilContent
    \/ GenerateContentErr
    \/ RecvFinal
    \/ RecvProgress
    \/ RecvError
    \/ Close
    \/ ProcessExit
    \/ CallBuiltIn
    \/ ToolHandler
    \/ ToolGetURL
    \/ ToolScreenshot
    \/ BuiltInReturn
    \/ SelectCtxDone
    \/ SelectReject
    \/ SelectRespond
    \/ SelectPark
    \/ DispatchReturn
    \/ AppendResults
    \/ Cancel
    \/ Respond
    \/ Reject

\* The goroutine of StartLoop runs whenever it can take a step, and the
\* subscriber keeps receiving from eventChan.
Fairness ==
    /\ WF_vars(SelectCtxDone)
    /\ WF_vars(RecvError)
    /\ WF_vars(Close)

SpecFair == Init /\ [][Next]_vars /\ Fairness

\* The same system with the invocations on handles whose funcs are nil: they
\* return at once and change nothing.
NextHandles ==
    \/ Next
    \/ RespondNil
    \/ RejectNil

SpecHandles == Init /\ [][NextHandles]_vars

Spec == Init /\ [][Next]_vars

\* ------------------------------------------- pruneOldScreenshots on its own
\* The histories pruneOldScreenshots is given: the prompt, then per turn the
\* model's turn with one call and its result.  kinds[t] says what the result
\* of turn t is: "shot", the result of a built-in tool with its screenshot;
\* "bare", the same without its screenshot; "custom", the result of a tool
\* of the subscriber.
ResultKinds == { "shot", "bare", "custom" }
ResultTurn(kind, t) ==
    LET sess == [actions |-> t]
        url == 10 * t + 1 IN
    Content(RoleUser,
        << CASE kind = "shot" ->
                  NewPartFromFunctionResponseWithParts(
                      "navigate", getURLResponse(url), << Screenshot(sess) >>)
             [] kind = "bare" ->
                  NewPartFromFunctionResponseWithParts(
                      "navigate", getURLResponse(url), <<>>)
             [] kind = "custom" ->
                  NewPartFromFunctionResponse("ask_user", Payload(t)) >>)
RECURSIVE HistoryOf(_, _)
HistoryOf(kinds, t) ==
    IF t = 0 THEN << Content(RoleUser, <<TextPart(<<0>>)>>) >>
    ELSE HistoryOf(kinds, t - 1)
         \o << ModelTurn(<< IF kinds[t] = "custom" THEN "ask_user"
                            ELSE "navigate" >>, t),
               ResultTurn(kinds[t], t) >>
PrunerHistories ==
    { HistoryOf(kinds, Len(kinds)) :
        kinds \in UNION { [1..n -> ResultKinds] : n \in 0..MaxPruneTurns } }

InitPruner ==
    /\ cfgMax \in 1..DefaultMaxRecentTurns
    /\ history \in PrunerHistories
    /\ pc = "prune"
    /\ ctxDone = FALSE
    /\ turn = 0
    /\ callIdx = 0
    /\ pendingIdx = 0
    /\ responseParts = <<>>
    /\ err = NoErr
    /\ session = [actions |-> 0]
    /\ call = NoCall
    /\ closed = FALSE
    /\ received = <<>>
    /\ respQ = [ch \in Chans |-> <<>>]
    /\ rejQ = [ch \in Chans |-> <<>>]
    /\ settled = [ch \in Chans |-> "pending"]
    /\ invoked = 0

\* pruneOldScreenshots(history, maxTurns) is applied.
Prune ==
    /\ pc \in { "prune", "pruned" }
    /\ history' = pruneOldScreenshots(history, cfgMax)
    /\ pc' = IF pc = "prune" THEN "pruned" ELSE "pruned again"
    /\ UNCHANGED << cfgMax, ctxDone, turn, loopVars, session, call, closed,
                    received, subscriberVars >>

NextPruner == Prune

SpecPruner == InitPruner /\ [][NextPruner]_vars

\* --------------------------------------------- HandleBuiltInTool on its own
\* The arguments HandleBuiltInTool is called with: a navigation, the two tools
\* that do not act on the session, a tool whose landing URL is the browser's,
\* and a name that is not in the registry; no extra fields, a safety
\* acknowledgement, and a field under the key of the URL.
ToolNames ==
    { "navigate", "open_web_browser", "wait_5_seconds", "go_back", "ask_user" }
ToolArgs == { 11 }
ExtraFieldsChoices ==
    { EmptyMap, "safety_acknowledgement" :> 1, "url" :> 99 }
ToolSessions == { [actions |-> 0] }

InitTool ==
    /\ session \in ToolSessions
    /\ call \in { NewCall(name, args, extraFields) :
                    name \in ToolNames, args \in ToolArgs,
                    extraFields \in ExtraFieldsChoices }
    /\ pc = "tool"
    /\ cfgMax = DefaultMaxRecentTurns
    /\ history = << Content(RoleUser, <<TextPart(<<0>>)>>) >>
    /\ ctxDone = FALSE
    /\ turn = 0
    /\ callIdx = 0
    /\ pendingIdx = 0
    /\ responseParts = <<>>
    /\ err = NoErr
    /\ closed = FALSE
    /\ received = <<>>
    /\ respQ = [ch \in Chans |-> <<>>]
    /\ rejQ = [ch \in Chans |-> <<>>]
    /\ settled = [ch \in Chans |-> "pending"]
    /\ invoked = 0

NextTool ==
    \/ ToolHandler
    \/ ToolGetURL
    \/ ToolScreenshot

SpecTool == InitTool /\ [][NextTool]_vars

\* ------------------------------------------------------------------ claims
\* Events of one type among those received.
EventsOfType(type) == { e \in 1..Len(received) : received[e].type = type }

\* The loop is inside executeFunctionCalls or has just returned from it.
InDispatch == pc \in { "dispatch", "builtin", "await" }

\* C1: a dispatch that succeeds returns one result part per function call of
\* the turn, and the i-th part carries the name of the i-th call, whatever the
\* order of the Respond invocations; while the dispatch runs, the parts so far
\* are those of the calls already handled, in order.
C1_ResultsFollowCalls ==
    /\ InDispatch =>
         /\ Len(responseParts) = callIdx - 1
         /\ \A i \in 1..Len(responseParts) :
              /\ responseParts[i].kind = "resp"
              /\ responseParts[i].name = functionCalls[i].Name
    /\ pc = "append" =>
         /\ Len(responseParts) = Len(functionCalls)
         /\ \A i \in 1..Len(functionCalls) :
              /\ responseParts[i].kind = "resp"
              /\ responseParts[i].name = functionCalls[i].Name

\* C1 witness: a dispatch of two custom calls has succeeded, the handle of the
\* second call having been answered before the handle of the first.
C1_Witness ==
    /\ pc = "append"
    /\ Len(functionCalls) = 2
    /\ \A i \in 1..2 : ~IsBuiltInTool(functionCalls[i].Name)
    /\ responseParts[1].response = Payload(2)
    /\ responseParts[2].response = Payload(1)

\* The handle list of the turn's Progress event is the full list: one handle
\* per call, in order, with the call's name and args.
FullHandleList(handles) ==
    /\ Len(handles) = Len(functionCalls)
    /\ \A i \in 1..Len(handles) :
         /\ handles[i].FunctionName = functionCalls[i].Name
         /\ handles[i].Args = functionCalls[i].Args

\* The subscriber has received exactly one Progress event of the current
\* turn, it carries the full handle list, and it is the last event received.
ProgressAccepted ==
    /\ received # <<>>
    /\ Last(received).type = "Progress"
    /\ Last(received).Text = text
    /\ FullHandleList(Last(received).FunctionCalls)
    /\ Cardinality({ e \in EventsOfType("Progress") : received[e].Text = text }) = 1

\* C2: a built-in tool is executed, and a custom call is awaited, only after
\* the subscriber has received the one Progress event of the turn, which
\* carries the full handle list.
C2_ProgressBeforeExecution ==
    [][ (\/ pc' = "builtin"
         \/ session' # session
         \/ pendingIdx' > pendingIdx
         \/ settled' # settled
         \/ pc' = "await")
        => ProgressAccepted ]_vars

\* C2 witness: a turn with a built-in and a custom call; the built-in has been
\* executed and the custom call is awaited.
C2_Witness ==
    /\ pc = "await"
    /\ Len(functionCalls) = 2
    /\ Len(responseParts) = 1
    /\ session.actions = 1
    /\ ProgressAccepted

\* C3 (as claimed): once executeFunctionCalls has received the value of one
\* Respond or Reject invocation on a handle, the outcome of the handle does
\* not change and no later invocation on it is left blocked in its send.
C3_SubsequentIgnored ==
    [][ \A ch \in Chans :
          settled[ch] # "pending" =>
            /\ settled'[ch] = settled[ch]
            /\ respQ'[ch] = respQ[ch]
            /\ rejQ'[ch] = rejQ[ch] ]_vars

\* The last turn of the history is a model turn without function calls.
ZeroCallTurn ==
    /\ Last(history).role = RoleModel
    /\ FunctionCallsOf(Last(history)) = <<>>

\* Progress events received for the turn whose text is t.
ProgressOfTurn(t) == { e \in EventsOfType("Progress") : received[e].Text = t }

\* After a turn without function calls the loop only sends the final Progress
\* event: no request, no change of the history, no tool execution.
C4_NothingAfterFinalTurn ==
    pc \in { "sendFinal", "break" } =>
        /\ pc' \in { "sendFinal", "break" }
        /\ history' = history
        /\ turn' = turn
        /\ session' = session
        /\ (pc = "break" => received' = received)

\* C4: a model turn without function calls ends the loop: one Progress event
\* with an empty call list is sent for it and the goroutine leaves the loop
\* and closes eventChan; after the turn no request is sent, nothing is
\* appended to the history, no tool is executed and no Error event is sent.
C4_ZeroCallTurnEndsLoop ==
    /\ [](ZeroCallTurn => pc \in { "sendFinal", "break" })
    /\ [](pc = "sendFinal" =>
            /\ ZeroCallTurn
            /\ ProgressOfTurn(text) = {}
            /\ EventsOfType("Error") = {})
    /\ [](pc = "break" =>
            /\ ZeroCallTurn
            /\ Last(received) = ProgressEvent(text, <<>>)
            /\ Cardinality(ProgressOfTurn(text)) = 1
            /\ EventsOfType("Error") = {}
            /\ (closed \/ ENABLED Close))
    /\ [][C4_NothingAfterFinalTurn]_vars

\* C4 witness: the second turn of the model has no function calls; its
\* Progress event has been received and eventChan is closed.
C4_Witness ==
    /\ pc = "break"
    /\ closed
    /\ turn = 2
    /\ Len(received) = 2
    /\ Last(received).FunctionCalls = <<>>

\* After an Error event has been received the loop does nothing more.
C5_NothingAfterError ==
    EventsOfType("Error") # {} =>
        /\ pc' = pc
        /\ received' = received
        /\ history' = history
        /\ turn' = turn
        /\ session' = session
        /\ callIdx' = callIdx
        /\ pendingIdx' = pendingIdx

\* C5: at most one Error event is sent; it is the last event, the goroutine
\* has returned when it is received (eventChan is closed next), and after it
\* no request is sent, no tool is executed and the history does not change.
C5_ErrorIsLast ==
    /\ [](Cardinality(EventsOfType("Error")) <= 1)
    /\ [](EventsOfType("Error") # {} =>
            /\ Last(received).type = "Error"
            /\ pc \in { "returnTop", "returnRequest", "returnDispatch" }
            /\ (closed \/ ENABLED Close))
    /\ [](closed => Returned)
    /\ [][C5_NothingAfterError]_vars

\* C5 witness: the Error event of a failed dispatch has been received after
\* the Progress event of its turn, and eventChan is closed.
C5_Witness ==
    /\ pc = "returnDispatch"
    /\ closed
    /\ Len(received) = 2
    /\ Last(received) = ErrorEvent(err)
    /\ err.kind = "error handling built-in tool"

\* executeFunctionCalls has received a rejection.
RejectTaken == \E ch \in Chans : settled[ch] = "rejected"

\* After a rejection has been received the loop only sends its Error event.
C6_NothingAfterReject ==
    RejectTaken =>
        /\ history' = history
        /\ turn' = turn
        /\ session' = session
        /\ callIdx' = callIdx
        /\ pendingIdx' = pendingIdx
        /\ settled' = settled
        /\ (received' = received \/ received' = Append(received, ErrorEvent(err)))

\* C6: no Reject invocation stays blocked on the handle the select is parked
\* on, and once executeFunctionCalls has received the rejection of a custom
\* call the dispatch has failed: the only event still sent is one Error event, no
\* later call of the turn is executed or awaited, no tool-results turn is
\* appended and no request is sent.
C6_RejectEndsLoop ==
    /\ []((pc = "await" /\ ~ctxDone) => rejQ[Awaited] = <<>>)
    /\ [](RejectTaken =>
            /\ pc \in { "sendErrDispatch", "returnDispatch" }
            /\ err.kind = "function call rejected"
            /\ responseParts = <<>>
            /\ Last(history).role = RoleModel
            /\ Cardinality(EventsOfType("Error"))
                 = (IF pc = "returnDispatch" THEN 1 ELSE 0)
            /\ (pc = "returnDispatch" => Last(received) = ErrorEvent(err)))
    /\ [][C6_NothingAfterReject]_vars

\* C6 witness: the first call of a turn was rejected while the select was
\* parked on it; the built-in call after it was never executed, and the Error
\* event has been received.
C6_Witness ==
    /\ pc = "returnDispatch"
    /\ RejectTaken
    /\ invoked = 1
    /\ Len(functionCalls) = 2
    /\ IsBuiltInTool(functionCalls[2].Name)
    /\ session.actions = 0
    /\ Last(received) = ErrorEvent(err)

\* A parked select that ctx.Done() has completed can only return ctx.Err().
C7_ParkedSelectEndsCancelled ==
    (pc = "await" /\ ctxDone) =>
        /\ history' = history
        /\ settled' = settled
        /\ (pc' = "await" \/ (pc' = "sendErrDispatch" /\ err' = ErrCancelled))

\* After a failed dispatch the history does not change and the loop returns.
C7_NoAppendAfterDispatchError ==
    pc \in { "sendErrDispatch", "returnDispatch" } =>
        /\ history' = history
        /\ pc' \in { "sendErrDispatch", "returnDispatch" }

\* C7: when ctx is cancelled while the select of a custom call is parked, the
\* select ends with ctx.Err(): the loop sends Error{Cancelled} and the history
\* still ends with the model's turn.
C7_CancelMidWait ==
    /\ []((pc \in { "sendErrDispatch", "returnDispatch" } /\ err = ErrCancelled) =>
            /\ Last(history).role = RoleModel
            /\ responseParts = <<>>
            /\ (pc = "returnDispatch" => Last(received) = ErrorEvent(ErrCancelled)))
    /\ [][C7_ParkedSelectEndsCancelled]_vars
    /\ [][C7_NoAppendAfterDispatchError]_vars

\* C7 witness: ctx was cancelled while the select was parked on a custom call
\* that follows an executed built-in call, and the select can only end with
\* the cancellation.
C7_Witness ==
    /\ pc = "await"
    /\ ctxDone
    /\ Len(responseParts) = 1
    /\ ENABLED SelectCtxDone

\* At the top of an iteration with ctx cancelled the loop can only go on to
\* send Error{Cancelled}.
C8_NoRequestWhenCancelled ==
    (pc = "top" /\ ctxDone) =>
        /\ turn' = turn
        /\ history' = history
        /\ (pc' = "top" \/ (pc' = "sendErrTop" /\ err' = ErrCancelled))

\* Having found ctx cancelled at the top, the loop sends no request and
\* returns.
C8_ReturnAfterCancelled ==
    pc \in { "sendErrTop", "returnTop" } =>
        /\ turn' = turn
        /\ history' = history
        /\ session' = session
        /\ pc' \in { "sendErrTop", "returnTop" }

\* C8: an iteration whose check at the top finds ctx cancelled sends
\* Error{Cancelled} and returns; it issues no GenerateContent request.
C8_CancelledAtTop ==
    /\ [][C8_NoRequestWhenCancelled]_vars
    /\ [][C8_ReturnAfterCancelled]_vars
    /\ [](pc = "returnTop" => Last(received) = ErrorEvent(ErrCancelled))

\* C8 witness: the check at the top of the second iteration found ctx
\* cancelled; Error{Cancelled} has been received and one request was issued.
C8_Witness ==
    /\ pc = "returnTop"
    /\ turn = 1
    /\ Len(history) = 3
    /\ Last(received) = ErrorEvent(ErrCancelled)

\* Tool-results turns with the result of a built-in tool: the turns whose
\* results were produced with a screenshot.
ScreenshotTurns ==
    { i \in 1..Len(history) :
        /\ history[i].role = RoleUser
        /\ \E j \in 1..Len(history[i].parts) :
             /\ history[i].parts[j].kind = "resp"
             /\ IsBuiltInTool(history[i].parts[j].name) }

\* The rank of turn i among the screenshot turns, counted from the end.
RankFromEnd(i) == Cardinality({ j \in ScreenshotTurns : j >= i })

\* Every result of a built-in tool in the turn holds its attachment.
KeepsAttachments(content) ==
    \A j \in 1..Len(content.parts) :
        (content.parts[j].kind = "resp" /\ IsBuiltInTool(content.parts[j].name))
            => content.parts[j].parts # <<>>

\* No part of the turn holds an attachment.
NoAttachments(content) ==
    \A j \in 1..Len(content.parts) : content.parts[j].parts = <<>>

\* The turn without its attachments.
WithoutAttachments(content) ==
    [content EXCEPT !.parts =
        [j \in 1..Len(content.parts) |-> [content.parts[j] EXCEPT !.parts = <<>>]]]

\* A step keeps every turn of the history in place and changes nothing of it
\* but attachments, which it keeps or removes.
C9_TurnsKeepFields ==
    /\ Len(history') >= Len(history)
    /\ \A i \in 1..Len(history) :
         /\ WithoutAttachments(history'[i]) = WithoutAttachments(history[i])
         /\ \A j \in 1..Len(history[i].parts) :
              history'[i].parts[j].parts \in { history[i].parts[j].parts, <<>> }

\* C9: with a positive retention window N, the screenshot turns that hold
\* attachments are the N most recent ones: each of these holds the attachment
\* of every built-in result, every older one holds none; pruning changes no
\* name and no payload.
C9_RecentKeepScreenshots ==
    /\ [](cfgMax > 0 =>
            \A i \in 1..Len(history) :
                IF i \in ScreenshotTurns /\ RankFromEnd(i) <= cfgMax
                THEN KeepsAttachments(history[i])
                ELSE NoAttachments(history[i]))
    /\ [][C9_TurnsKeepFields]_vars

\* C9 witness: a window of 2 and three completed turns with built-in
\* results, the oldest of which has lost its attachments.
C9_Witness ==
    /\ cfgMax = 2
    /\ pc = "top"
    /\ Cardinality(ScreenshotTurns) = 3
    /\ NoAttachments(history[3])
    /\ Cardinality({ i \in ScreenshotTurns : NoAttachments(history[i]) }) = 1
    /\ Cardinality({ i \in ScreenshotTurns : KeepsAttachments(history[i]) }) = 2

\* With a negative window no step changes a turn of the history.
C10_TurnsUnchanged ==
    cfgMax < 0 => \A i \in 1..Len(history) : history'[i] = history[i]

\* C10: the window is never 0 after the defaults, and with a negative window
\* no attachment is removed: every built-in result of the history holds its
\* attachment, however many turns there are.
C10_NegativeNeverPrunes ==
    /\ [](cfgMax # 0)
    /\ [](cfgMax < 0 =>
            \A i \in 1..Len(history) : KeepsAttachments(history[i]))
    /\ [][C10_TurnsUnchanged]_vars

\* C10 witness: a negative window and three completed turns with built-in
\* results, all of which hold their attachments.
C10_Witness ==
    /\ cfgMax < 0
    /\ pc = "top"
    /\ Cardinality(ScreenshotTurns) = 3
    /\ \A i \in ScreenshotTurns : ~NoAttachments(history[i])

\* A part is unchanged, or it is the result of a built-in tool in a user turn
\* and has lost its attachments only.
C11_PartKept(content, old, new) ==
    \/ new = old
    \/ /\ content.role = RoleUser
       /\ old.kind = "resp"
       /\ IsBuiltInTool(old.name)
       /\ new = [old EXCEPT !.parts = <<>>]

\* A step appends at most one turn at the end of the history and keeps every
\* turn in place: role, number and order of parts, and every part but for
\* removed attachments; model turns and the prompt are kept as they are.
C11_HistoryStep ==
    /\ Len(history') \in { Len(history), Len(history) + 1 }
    /\ \A i \in 1..Len(history) :
         /\ history'[i].role = history[i].role
         /\ Len(history'[i].parts) = Len(history[i].parts)
         /\ \A j \in 1..Len(history[i].parts) :
              C11_PartKept(history[i], history[i].parts[j], history'[i].parts[j])
         /\ (history[i].role = RoleModel \/ i = 1) => history'[i] = history[i]

\* C11: the history only grows at its end; no turn is removed, reordered or
\* replaced, and the only change to a turn is the removal of attachments from
\* built-in results of user turns.
C11_AppendOnly ==
    /\ [](history[1] = Content(RoleUser, <<TextPart(<<0>>)>>))
    /\ [][C11_HistoryStep]_vars

\* C11 witness: with a window of 1 the loop has completed two turns with
\* built-in results and the first of them has lost its attachments.
C11_Witness ==
    /\ cfgMax = 1
    /\ Len(history) = 5
    /\ 3 \in ScreenshotTurns
    /\ NoAttachments(history[3])
    /\ ~NoAttachments(history[5])

\* The dispatch of the current turn has returned the error of a built-in
\* execution or of a rejection.
C12_DispatchFailed ==
    /\ pc \in { "sendErrDispatch", "returnDispatch" }
    /\ err.kind \in { ErrBuiltIn("", "").kind, ErrRejected("", "").kind }

\* Once the dispatch has failed, the only step of the loop left is the delivery
\* of its Error event: no call is executed or awaited, nothing is appended.
C12_NothingAfterFailure ==
    C12_DispatchFailed =>
        /\ UNCHANGED << history, session, call, turn, callIdx, pendingIdx,
                        responseParts, err, settled >>
        /\ pc' \in { pc, "returnDispatch" }
        /\ received' \in { received, Append(received, ErrorEvent(err)) }

\* C12: a failed built-in execution or a rejection makes the dispatch return
\* one error and no results; the results of earlier calls are dropped, the
\* history still ends with the model turn, the remaining calls are neither
\* executed nor awaited, and the loop ends with that single Error event.
C12_FailureAbortsDispatch ==
    /\ [](C12_DispatchFailed =>
            /\ responseParts = <<>>
            /\ Len(history) = 2 * turn
            /\ Last(history).role = RoleModel
            /\ callIdx <= Len(functionCalls)
            /\ Cardinality(EventsOfType("Error")) = (IF pc = "returnDispatch" THEN 1 ELSE 0)
            /\ pc = "returnDispatch" => Last(received) = ErrorEvent(err))
    /\ [][C12_NothingAfterFailure]_vars

\* C12 witness: the second call of a turn, a built-in, has failed after the
\* first call produced its result, and the loop has ended.
C12_Witness ==
    /\ closed
    /\ pc = "returnDispatch"
    /\ err.kind = ErrBuiltIn("", "").kind
    /\ callIdx = 2
    /\ Len(functionCalls) = 2
    /\ session.actions >= 1

\* The handles of the e-th event follow the calls of the model turn it reports.
C13_HandlesOfEvent(e) ==
    LET calls == FunctionCallsOf(history[2 * e])
        handles == received[e].FunctionCalls
    IN  /\ Len(handles) = Len(calls)
        /\ \A i \in 1..Len(calls) :
             /\ handles[i].FunctionName = calls[i].Name
             /\ handles[i].Args = calls[i].Args
             /\ handles[i].needsAction <=> ~IsBuiltInTool(calls[i].Name)
             /\ ~handles[i].needsAction => handles[i].chan = NoChan

\* The channels of the handles whose call is not in the built-in registry.
C13_CustomChans ==
    { ch \in Chans :
        \E e \in EventsOfType("Progress") :
          \E i \in 1..Len(received[e].FunctionCalls) :
            /\ ~IsBuiltInTool(received[e].FunctionCalls[i].FunctionName)
            /\ received[e].FunctionCalls[i].chan = ch }

\* C13: a Progress event has one handle per call of its model turn, in order,
\* with the call's name and args; needsAction holds exactly for the calls not
\* in the built-in registry; no invocation on a handle with needsAction false
\* reaches the dispatcher: only channels of custom handles ever carry a value.
C13_HandlesMatchCalls ==
    /\ \A e \in EventsOfType("Progress") : C13_HandlesOfEvent(e)
    /\ \A ch \in Chans :
         (respQ[ch] # <<>> \/ rejQ[ch] # <<>> \/ settled[ch] # "pending")
            => ch \in C13_CustomChans

\* C13 witness: the subscriber holds the handles of a turn with a custom call
\* followed by a built-in call, and has invoked Respond or Reject.
C13_Witness ==
    /\ Len(received) >= 1
    /\ received[1].type = "Progress"
    /\ Len(received[1].FunctionCalls) = 2
    /\ received[1].FunctionCalls[1].needsAction
    /\ ~received[1].FunctionCalls[2].needsAction
    /\ ENABLED RespondNil
    /\ invoked >= 1

\* HandleBuiltInTool has returned a part.
C14_Succeeded == call.stage = "returned" /\ call.err = ""

\* The action of the tool has been applied to the session.
C14_ActionApplied == call.name \in ActingTools => session.actions = 1

\* session.GetURL is called, and the screenshot taken, once the action of the
\* tool has been applied.
C14_ReadsFollowAction ==
    call.stage \in { "geturl", "screenshot" } => C14_ActionApplied

\* The screenshot of the returned part shows the session as the action of
\* the tool left it.
C14_ScreenshotAfterAction ==
    /\ call.part.kind = "resp"
    /\ call.part.name = call.name
    /\ call.part.parts = << [mime |-> "image/png", data |-> session] >>
    /\ C14_ActionApplied

\* A failed capture ends the call with an error and no part, the action of
\* the tool being applied to the session.
C14_CaptureFailure ==
    (call.stage = "returned" /\ call.err = "failed to take screenshot") =>
        /\ call.part = NoCall.part
        /\ C14_ActionApplied

\* C14 (as claimed): the payload of every part HandleBuiltInTool returns
\* holds the URL session.GetURL reported after the action, and the part holds
\* one screenshot taken after the action; a failed capture yields an error
\* and no part, the action being applied.
C14_PayloadHasPostActionURL ==
    /\ C14_Succeeded =>
         /\ "url" \in DOMAIN call.part.response
         /\ call.part.response["url"] = call.url
         /\ C14_ScreenshotAfterAction
    /\ C14_ReadsFollowAction
    /\ C14_CaptureFailure

\* C14 (amended): the payload of every part HandleBuiltInTool returns holds
\* the extra fields it was given and, unless they hold a "url" of their own,
\* which then stands in its place, the URL session.GetURL reported after the
\* action; the part holds one screenshot taken after the action; a failed
\* capture yields an error and no part, the action being applied.
C14_ResultAfterAction ==
    /\ C14_Succeeded =>
         /\ DOMAIN call.part.response = { "url" } \cup DOMAIN call.extraFields
         /\ \A k \in DOMAIN call.extraFields :
              call.part.response[k] = call.extraFields[k]
         /\ "url" \notin DOMAIN call.extraFields =>
              call.part.response["url"] = call.url
         /\ C14_ScreenshotAfterAction
    /\ C14_ReadsFollowAction
    /\ C14_CaptureFailure

\* C14 witness: a navigation called with extra fields that hold a "url" has
\* returned its part; the browser reported a URL other than the argument of
\* the navigation, and the payload holds the value of the extra fields and
\* not the reported URL.
C14_Witness ==
    /\ C14_Succeeded
    /\ call.name = "navigate"
    /\ "url" \in DOMAIN call.extraFields
    /\ call.url # call.args
    /\ call.part.response["url"] # call.url
    /\ session.actions = 1

\* The loop has moved past the custom call of channel ch without receiving
\* from it: its dispatch was aborted, or a later turn has begun.
C15_MovedPast(ch) ==
    /\ ch \in HeldChans
    /\ settled[ch] = "pending"
    /\ \/ ch[1] < turn
       \/ pc \in { "sendErrDispatch", "returnDispatch" }

\* A step leaves no invocation blocked on a channel the loop has moved past.
C15_LateInvocationReturns ==
    \A ch \in Chans :
        C15_MovedPast(ch) => /\ Len(respQ'[ch]) <= Len(respQ[ch])
                             /\ Len(rejQ'[ch]) <= Len(rejQ[ch])

\* C15: Respond or Reject on a custom handle after the loop has moved past
\* its call returns without blocking and changes neither history nor events.
C15_LateInvocationNoOp == [][C15_LateInvocationReturns]_vars

\* The dispatcher is parked on a custom call and the context is cancelled.
C16_CancelledWhileAwaiting == pc = "await" /\ ctxDone

\* C16: when the context is cancelled while the dispatcher awaits a custom
\* call and the subscriber keeps receiving, the wait ends and eventChan is
\* closed, whether or not Respond or Reject is ever invoked.
C16_CancelUnblocksAndCloses ==
    /\ C16_CancelledWhileAwaiting ~> (pc # "await")
    /\ C16_CancelledWhileAwaiting ~> closed
    /\ [](closed => pc # "await")

\* C16 witness: the context is cancelled while the dispatcher is parked and
\* no Respond or Reject has been invoked.
C16_Witness ==
    /\ C16_CancelledWhileAwaiting
    /\ invoked = 0
    /\ \A ch \in Chans : settled[ch] = "pending"

\* Every call before position j of the current turn has produced its result:
\* its part is in responseParts and, if custom, its channel was answered.
C17_EarlierCallsDone(j) ==
    /\ Len(responseParts) = j - 1
    /\ \A i \in 1..(j - 1) :
         /\ responseParts[i].name = functionCalls[i].Name
         /\ callEvents[i].needsAction => settled[callEvents[i].chan] = "responded"

\* A step that acts on the session is the execution of the built-in call at
\* callIdx, is one action, and follows the results of all earlier calls.
C17_SessionStep ==
    session' # session =>
        /\ pc = "builtin"
        /\ call.stage = "handler"
        /\ C17_EarlierCallsDone(callIdx)
        /\ session'.actions = session.actions + 1

\* C17: the calls of a turn are handled one at a time in order; call j is
\* executed or awaited only once every earlier call has its result, so a
\* built-in call after an unanswered custom call leaves the session alone,
\* and the session is acted on by one call at a time.
C17_OneCallAtATime ==
    /\ [](InDispatch =>
            /\ callIdx \in 1..(Len(functionCalls) + 1)
            /\ C17_EarlierCallsDone(callIdx)
            /\ pc = "await" => callEvents[callIdx].needsAction
            /\ pc = "builtin" => /\ ~callEvents[callIdx].needsAction
                                 /\ call.name = functionCalls[callIdx].Name
                                 /\ call.args = functionCalls[callIdx].Args)
    /\ [](call # NoCall <=> pc = "builtin")
    /\ [][C17_SessionStep]_vars

\* C17 witness: in a turn with a custom call followed by a built-in call, the
\* built-in call has acted on the session after the custom call was answered.
C17_Witness ==
    /\ pc = "dispatch"
    /\ Len(functionCalls) = 2
    /\ callEvents[1].needsAction
    /\ ~callEvents[2].needsAction
    /\ callIdx = 3
    /\ Len(responseParts) = 2
    /\ session.actions = 1

\* A second application of pruneOldScreenshots leaves the history as the
\* first application left it.
C18_SecondApplication == pc = "pruned" => history' = history

\* C18: pruneOldScreenshots is idempotent: for every history and every
\* positive window, a second application with the same window to the pruned
\* history changes nothing.
C18_PruneIdempotent == [][C18_SecondApplication]_vars

\* C18 witness: a history of four turns with screenshots has been pruned
\* twice with a window of 1; the three oldest turns have no attachments.
C18_Witness ==
    /\ pc = "pruned again"
    /\ cfgMax = 1
    /\ Cardinality(ScreenshotTurns) = 4
    /\ Cardinality({ i \in ScreenshotTurns : NoAttachments(history[i]) }) = 3
    /\ ~NoAttachments(Last(history))

\* The request of the current iteration has failed.
C19_RequestFailed == err = ErrGenerate

\* After a failed request the only step of the loop left is the delivery of
\* its Error event: no turn is appended, no tool runs, no request is issued.
C19_NothingAfterRequestFailure ==
    C19_RequestFailed =>
        /\ UNCHANGED << history, turn, session, call, callIdx, pendingIdx,
                        responseParts, err, settled >>
        /\ pc' \in { pc, "returnRequest" }
        /\ received' \in { received, Append(received, ErrorEvent(ErrGenerate)) }

\* The step in which the request fails leaves history and events as they are.
C19_FailingStep ==
    (~C19_RequestFailed /\ C19_RequestFailed') =>
        /\ pc = "generate"
        /\ UNCHANGED << history, received, session, call, turn >>

\* C19: a failed model request ends the loop with one Error event; the
\* iteration appends no turn to the history, emits no Progress event, runs no
\* tool and issues no further request.
C19_RequestFailureEndsLoop ==
    /\ [](C19_RequestFailed =>
            /\ pc \in { "sendErrRequest", "returnRequest" }
            /\ Len(history) = 2 * turn - 1
            /\ Last(history).role = RoleUser
            /\ Cardinality(EventsOfType("Progress")) = turn - 1
            /\ Cardinality(EventsOfType("Error")) = (IF pc = "returnRequest" THEN 1 ELSE 0)
            /\ pc = "returnRequest" => Last(received) = ErrorEvent(ErrGenerate))
    /\ [][C19_NothingAfterRequestFailure]_vars
    /\ [][C19_FailingStep]_vars

\* C19 witness: the second request has failed after a first turn whose tool
\* results were appended, and the loop has ended.
C19_Witness ==
    /\ closed
    /\ pc = "returnRequest"
    /\ turn = 2
    /\ Len(history) = 3
    /\ Len(received) = 2

\* The invocations of Respond and Reject that have not returned: each is
\* blocked in the send of its value.
C20_BlockedInvocations ==
    { x \in Chans \X (1..MaxInvocations) :
        x[2] <= Len(respQ[x[1]]) + Len(rejQ[x[1]]) }

\* A value is received from a channel only by the dispatcher of the turn of
\* that channel, at the call of that channel, every earlier call having its
\* result.
C20_ReceiveStep ==
    \A ch \in Chans :
        settled'[ch] # settled[ch] =>
            /\ settled[ch] = "pending"
            /\ InDispatch
            /\ ch[1] = turn
            /\ callIdx <= Len(functionCalls)
            /\ callEvents[callIdx].chan = ch
            /\ Len(responseParts) = callIdx - 1

\* C20: Respond and Reject are rendezvous operations: the invocations that
\* have returned are those whose value the dispatcher has received, one per
\* answered call, and the dispatcher receives a value only while it is at
\* exactly that call.
C20_Rendezvous ==
    /\ [](invoked - Cardinality(C20_BlockedInvocations)
            = Cardinality({ ch \in Chans : settled[ch] # "pending" }))
    /\ [][C20_ReceiveStep]_vars

\* C20 witness: a Respond on the handle of the second custom call of a turn
\* is blocked while the dispatcher awaits the first.
C20_Witness ==
    /\ pc = "await"
    /\ callIdx = 1
    /\ settled[<<turn, 1>>] = "pending"
    /\ respQ[<<turn, 2>>] # <<>>

\* The number of custom calls among the first j calls of the current turn.
C21_CustomUpTo(j) ==
    Cardinality({ i \in 1..j : ~IsBuiltInTool(functionCalls[i].Name) })

\* The slot the dispatcher reads at the custom call at callIdx is the slot
\* created for that call: same call, same channels as the call's handle.
C21_SlotOfCall ==
    /\ CurrentPending.funcCall = functionCalls[callIdx]
    /\ CurrentPending.chan = callEvents[callIdx].chan
    /\ CurrentPending.chan = <<turn, C21_CustomUpTo(callIdx)>>

\* A step in which the dispatcher receives a response appends the part of the
\* call at callIdx, with the value passed to that call's handle.
C21_ReceivedValueStep ==
    \A ch \in Chans :
        (settled[ch] = "pending" /\ settled'[ch] = "responded") =>
            /\ callEvents[callIdx].chan = ch
            /\ Len(responseParts') = callIdx
            /\ responseParts'[callIdx].name = functionCalls[callIdx].Name
            /\ responseParts'[callIdx].response =
                  (IF respQ[ch] # <<>> THEN Head(respQ[ch])
                   ELSE Payload(invoked'))

\* C21: during dispatch there are as many pending slots as custom calls in the
\* turn, pendingIdx counts the custom calls reached so far and stays within
\* the slots, and at the k-th custom call the dispatcher awaits the slot made
\* for that call; the value passed to the call's handle is the payload of the
\* call's result.
C21_SlotsPairedWithCalls ==
    /\ [](InDispatch =>
            /\ Len(pendingResponses) = C21_CustomUpTo(Len(functionCalls))
            /\ pendingIdx \in 0..Len(pendingResponses)
            /\ pendingIdx = (IF pc = "await" THEN C21_CustomUpTo(callIdx)
                             ELSE C21_CustomUpTo(callIdx - 1))
            /\ (AtCustom \/ pc = "await") =>
                 /\ (IF pc = "await" THEN pendingIdx - 1 ELSE pendingIdx)
                        \in 0..(Len(pendingResponses) - 1)
                 /\ C21_SlotOfCall)
    /\ [][C21_ReceivedValueStep]_vars

\* C21 witness: the dispatcher is parked on the second custom call of a turn
\* whose first custom call was answered.
C21_Witness ==
    /\ pc = "await"
    /\ callIdx = 2
    /\ pendingIdx = 2
    /\ Len(pendingResponses) = 2
    /\ settled[<<turn, 1>>] = "responded"
    /\ settled[<<turn, 2>>] = "pending"

\* The history is the prompt turn followed by model turns at the even
\* positions and tool-results turns at the odd ones.
C22_Alternates ==
    /\ history[1] = Content(RoleUser, <<TextPart(<<0>>)>>)
    /\ \A i \in 1..Len(history) :
         history[i].role = (IF i % 2 = 1 THEN RoleUser ELSE RoleModel)

\* Every tool-results turn directly follows a model turn with calls and holds
\* one part per call of that turn.
C22_ResultsMatchCalls ==
    \A i \in 2..Len(history) :
        history[i].role = RoleUser =>
            /\ history[i - 1].role = RoleModel
            /\ Len(FunctionCallsOf(history[i - 1])) > 0
            /\ Len(history[i].parts) = Len(FunctionCallsOf(history[i - 1]))

\* The turns appended by the iterations so far: iteration t has appended
\* nothing, its model turn, or its model turn and its tool-results turn.
C22_TurnsPerIteration ==
    IF turn = 0 THEN Len(history) = 1
    ELSE Len(history) \in { 2 * turn - 1, 2 * turn, 2 * turn + 1 }

\* C22 (as claimed): the history starts with the user prompt and then
\* alternates model turn, tool-results turn; a request is sent with a history ending in a
\* user turn; an iteration appends at most a model turn and then a
\* tool-results turn; a tool-results turn follows a model turn with calls
\* and has one part per call.
C22_HistoryShape ==
    /\ C22_Alternates
    /\ C22_ResultsMatchCalls
    /\ C22_TurnsPerIteration
    /\ pc = "generate" => /\ Last(history).role = RoleUser
                          /\ Len(history) = 2 * turn - 1
====
